---------------------------- MODULE Spec2Model ----------------------------
(***************************************************************************)
(* Wheel-strategy backtest engine of src/src/strategies/wheel_backtest.py. *)
(*                                                                         *)
(* Dates.  The program keeps a date in two forms: the string "YYYYMMDD"    *)
(* (price_map keys, months, trade records) and a datetime (trade_days,     *)
(* the contract date columns, every scan).  Here a date string is the      *)
(* number month * 100 + day-of-month and a datetime is the ordinal of the  *)
(* day, counted from the first day of month 1; strptime and strftime       *)
(* convert between the two.  Every month has the days of MonthDays.        *)
(*                                                                         *)
(* Money.  Prices, strikes, quotes and multipliers are integers (a fixed   *)
(* number of price ticks); the moneyness band otm_min..otm_max is given in *)
(* percent and compared by cross-multiplication with the (positive) spot.  *)
(***************************************************************************)
EXTENDS Integers, Sequences, FiniteSets

VARIABLES
    \* ---- the arguments of run_wheel_backtest and what the data service holds
    pro,            \* the client: what each of its feeds answers
    underlying,     \* tokens of the ts_code, <<>> when missing
    otm_min,        \* percent
    otm_max,        \* percent
    quotes,         \* the answers of pro.opt_daily given so far, by (ts_code, date)
    \* ---- loaded by run_wheel_backtest, fixed during the loop
    price_map,      \* date string -> close            (line 110)
    option_basic,   \* sequence of contract rows       (line 114)
    trade_days,     \* sorted sequence of datetimes    (line 119)
    \* ---- run_wheel_backtest
    pc,             \* "start" | "loop" | "quote" | "credit" | "settle" | "done" | "error"
    contract_unit,  \* line 115
    months,         \* entry dates, line 124
    idx,            \* position of the for loop of line 199 in months
    cash,           \* state["cash"]
    shares,         \* state["shares"]
    max_margin,     \* state["max_margin"]
    trades,         \* line 196
    equity_curve,   \* line 197
    cache,          \* line 150
    option_type,    \* locals of the current cycle
    chosen,
    opt_px,
    implied_vol,    \* line 213, then line 220
    \* ---- history of the run, written by the actions, read only by properties
    pre,            \* state["cash"], state["shares"], ... when the current cycle began
    outcome,        \* how the last finished cycle ended
    picks,          \* every call of pick_option made by the loop: entry, side, shares
    lookups,        \* every call of option_close of this run: key, what it returned
    requests,       \* the requests sent to pro by the last step, in order
    prior,          \* what the previous run over the same data returned
    \* ---- the locals of estimate_implied_vol
    solver,
    \* ---- the local `current` of nearest_trade_day and of price_on_or_before
    cur,
    \* ---- one call of a function: its arguments and what it returned; for a
    \* ---- run, <<>> until it ends and then <<result>> or <<error message>>
    call,
    ret

vars == <<pro, underlying, otm_min, otm_max, quotes, price_map, option_basic, trade_days,
          pc, contract_unit, months, idx, cash, shares, max_margin, trades,
          equity_curve, cache, option_type, chosen, opt_px, implied_vol, pre, outcome,
          picks, lookups, requests, prior, solver, cur, call, ret>>

args   == <<pro, underlying, otm_min, otm_max>>
loaded == <<price_map, option_basic, trade_days>>
data   == <<args, loaded>>
run    == <<pc, contract_unit, months, idx, cash, shares, max_margin, trades,
            equity_curve, cache, option_type, chosen, opt_px, implied_vol, pre, outcome,
            picks, lookups>>

---------------------------------------------------------------------------
\* Bounds of the model.

NumMonths == 2
MonthDays == {1, 2}
Prices == {1, 2, 3}
InitialCapital == 10

\* Python's None (Optional[str], Optional[float], Optional[pd.Series]) and
\* pandas' NaT (a missing date after to_datetime(errors="coerce")).
None == -1
NaT == -2

\* NaN: a close, strike or multiplier that pd.to_numeric(errors="coerce") could
\* not read.
NaN == -3

DaysPerMonth == Cardinality(MonthDays)
LastDay == NumMonths * DaysPerMonth
AllDays == 1..LastDay
DateStrs == {m * 100 + d : m \in 1..NumMonths, d \in MonthDays}

\* datetime.strptime(date_str, "%Y%m%d"): the ordinal of a date string.
strptime(date_str) == ((date_str \div 100) - 1) * DaysPerMonth + (date_str % 100)

\* datetime.strftime("%Y%m%d"): the date string of an ordinal (any integer:
\* the scans below step outside the window).
strftime(current) ==
    (((current - 1) \div DaysPerMonth) + 1) * 100 + ((current - 1) % DaysPerMonth) + 1

\* pd.to_datetime(...).dt.to_period("M") of a date string; also entry[:6].
to_period(date_str) == date_str \div 100

Max(a, b) == IF a >= b THEN a ELSE b

SetMin(S) == CHOOSE x \in S : \A y \in S : x <= y

SetMax(S) == CHOOSE x \in S : \A y \in S : x >= y

\* sort_values().tolist() of a set of comparable values.
RECURSIVE sort_values(_)
sort_values(S) ==
    IF S = {} THEN <<>> ELSE <<SetMin(S)>> \o sort_values(S \ {SetMin(S)})

---------------------------------------------------------------------------
\* The closures of run_wheel_backtest over the loaded data.

day_set == {trade_days[k] : k \in 1..Len(trade_days)}

\* The while loop of nearest_trade_day: step, leave on the window test, else
\* return the day when it is a trading day.
RECURSIVE nearest_scan(_, _)
nearest_scan(current, delta) ==
    LET next == current + delta
    IN  IF next < trade_days[1] \/ next > trade_days[Len(trade_days)]
        THEN None
        ELSE IF next \in day_set THEN strftime(next) ELSE nearest_scan(next, delta)

\* Variant: the scan starts on the date itself instead of one day from it.
nearest_trade_day_inclusive(date_str, forward) ==
    nearest_scan(strptime(date_str) - (IF forward THEN 1 ELSE -1),
                 IF forward THEN 1 ELSE -1)

nearest_trade_day(date_str, forward) ==
    nearest_scan(strptime(date_str), IF forward THEN 1 ELSE -1)

\* Variant: the walk back gives up before the last trading day instead of the
\* first.
RECURSIVE price_scan_to_last_trade_day(_)
price_scan_to_last_trade_day(current) ==
    IF strftime(current) \in DOMAIN price_map
    THEN price_map[strftime(current)]
    ELSE IF current - 1 < trade_days[Len(trade_days)] THEN None
    ELSE price_scan_to_last_trade_day(current - 1)

price_on_or_before_to_last_trade_day(date_str) ==
    price_scan_to_last_trade_day(strptime(date_str))

\* The while loop of price_on_or_before: the test of price_map comes first,
\* the test against trade_days[0] after each step back.
RECURSIVE price_scan(_)
price_scan(current) ==
    IF strftime(current) \in DOMAIN price_map
    THEN price_map[strftime(current)]
    ELSE IF current - 1 < trade_days[1] THEN None ELSE price_scan(current - 1)

price_on_or_before(date_str) == price_scan(strptime(date_str))

\* pool["otm"] of a row, times spot: (spot - strike) for a put, (strike - spot)
\* for a call.  spot > 0, so dividing by it keeps the order of rows.
otm_num(row, spot, opt_type) ==
    IF opt_type = "P" THEN spot - row.exercise_price ELSE row.exercise_price - spot

\* The boolean mask of pick_option on one row; a comparison with NaT is false.
mask(row, date_dt, opt_type) ==
    /\ row.call_put = opt_type
    /\ row.list_date # NaT
    /\ row.list_date <= date_dt
    /\ (row.delist_date = NaT \/ row.delist_date >= date_dt)
    /\ row.maturity_date > date_dt

\* pool[(pool["otm"] >= otm_min) & (pool["otm"] <= otm_max)] on one row.
otm_in_range(row, spot, opt_type) ==
    /\ otm_num(row, spot, opt_type) * 100 >= otm_min * spot
    /\ otm_num(row, spot, opt_type) * 100 <= otm_max * spot

\* Variant: the sort keys are taken in the order ["otm", "maturity_date"].
sorts_before_otm_first(a, b, spot, opt_type) ==
    \/ otm_num(a, spot, opt_type) < otm_num(b, spot, opt_type)
    \/ /\ otm_num(a, spot, opt_type) = otm_num(b, spot, opt_type)
       /\ a.maturity_date < b.maturity_date

\* Whether row a sorts strictly before row b under
\* sort_values(["maturity_date", "otm"], ascending=[True, True]).
sorts_before(a, b, spot, opt_type) ==
    \/ a.maturity_date < b.maturity_date
    \/ /\ a.maturity_date = b.maturity_date
       /\ otm_num(a, spot, opt_type) < otm_num(b, spot, opt_type)

\* pick_option: the position in option_basic of the row returned, or None.
\* The sort on two keys is stable, so iloc[0] is the earliest row of the pool
\* that no other row of the pool sorts before.
pick_option(trade_date, spot, opt_type) ==
    LET date_dt == strptime(trade_date)
        masked  == {k \in 1..Len(option_basic) : mask(option_basic[k], date_dt, opt_type)}
        pool    == {k \in masked : otm_in_range(option_basic[k], spot, opt_type)}
        firsts  == {k \in pool : \A j \in pool :
                        ~sorts_before(option_basic[j], option_basic[k], spot, opt_type)}
    IN  IF masked = {} THEN None
        ELSE IF pool = {} THEN None
        ELSE SetMin(firsts)

---------------------------------------------------------------------------
\* run_wheel_backtest.

\* Variant: every price date is an entry date.
month_entries_every_date == sort_values(DOMAIN price_map)

\* groupby("ts").first()["trade_date"].tolist() over the sorted price rows: the
\* first price date of every calendar month that has one, in date order.
month_entries ==
    LET periods == {to_period(d) : d \in DOMAIN price_map}
    IN  sort_values({SetMin({d \in DOMAIN price_map : to_period(d) = p}) : p \in periods})

\* Variant: a call is sold only when more than one share is held.
side_for_more_than_one(held) == IF held > 1 THEN "C" ELSE "P"

\* Variant: a put is sold whatever is held.
side_for_always_put(held) == "P"

\* option_type = "P" if state["shares"] == 0 else "C"
side_for(held) == IF held = 0 THEN "P" ELSE "C"

\* premium = opt_px * contract_unit
premium_of(px) == px * contract_unit

\* Variant: a put is assigned at a settlement price equal to the strike too.
is_assigned_put_at_strike(opt_type, expiry_price, strike) ==
    \/ opt_type = "P" /\ expiry_price <= strike
    \/ opt_type = "C" /\ expiry_price > strike

\* Variant: a call is assigned at a settlement price equal to the strike too.
is_assigned_call_at_strike(opt_type, expiry_price, strike) ==
    \/ opt_type = "P" /\ expiry_price < strike
    \/ opt_type = "C" /\ expiry_price >= strike

\* The assignment test of lines 231 and 236.
is_assigned(opt_type, expiry_price, strike) ==
    \/ opt_type = "P" /\ expiry_price < strike
    \/ opt_type = "C" /\ expiry_price > strike

\* Variant: an assigned put delivers no shares.
shares_after_put_not_delivered(opt_type, assigned, held) ==
    IF ~assigned THEN held
    ELSE IF opt_type = "P" THEN held
    ELSE Max(0, held - contract_unit)

\* Variant: an assigned put delivers two multipliers of shares.
shares_after_put_delivers_twice(opt_type, assigned, held) ==
    IF ~assigned THEN held
    ELSE IF opt_type = "P" THEN held + 2 * contract_unit
    ELSE Max(0, held - contract_unit)

\* state["shares"] after settlement, lines 234 and 239.
shares_after(opt_type, assigned, held) ==
    IF ~assigned THEN held
    ELSE IF opt_type = "P" THEN held + contract_unit
    ELSE Max(0, held - contract_unit)

\* Variant: the strike is paid or received whether or not the option is assigned.
cash_after_always_exercised(opt_type, assigned, balance, strike) ==
    IF opt_type = "P" THEN balance - strike * contract_unit
    ELSE balance + strike * contract_unit

\* Variant: an assigned put is not paid for.
cash_after_put_unpaid(opt_type, assigned, balance, strike) ==
    IF ~assigned THEN balance
    ELSE IF opt_type = "P" THEN balance
    ELSE balance + strike * contract_unit

\* state["cash"] after settlement, lines 233 and 238.
cash_after(opt_type, assigned, balance, strike) ==
    IF ~assigned THEN balance
    ELSE IF opt_type = "P" THEN balance - strike * contract_unit
    ELSE balance + strike * contract_unit

\* Variant: the loop variable stays on the first entry date.
entry_always_first == months[1]

\* The loop variable of line 199.
entry == months[idx]
spot == price_map[entry]
row == option_basic[chosen]

---------------------------------------------------------------------------
\* Text.  A string is a sequence of tokens; the tokens that the code looks for
\* are "ETF", "Options" (the suffix appended to "ETF" by line 62), "SSE" and
\* "SZSE" (the two exchange prefixes removed by line 63) and " ".

\* Series.str.contains(kw): kw occurs in text as a contiguous run.
contains(text, kw) ==
    \E i \in 0..(Len(text) - Len(kw)) : SubSeq(text, i + 1, i + Len(kw)) = kw

\* str.replace(old, new) for a one-token old.
RECURSIVE replace(_, _, _)
replace(text, old, new) ==
    IF text = <<>> THEN <<>>
    ELSE (IF Head(text) = old THEN new ELSE <<Head(text)>>) \o replace(Tail(text), old, new)

RECURSIVE lstrip(_)
lstrip(text) == IF text # <<>> /\ Head(text) = " " THEN lstrip(Tail(text)) ELSE text

RECURSIVE rstrip(_)
rstrip(text) ==
    IF text # <<>> /\ text[Len(text)] = " "
    THEN rstrip(SubSeq(text, 1, Len(text) - 1)) ELSE text

\* str.strip()
strip(text) == rstrip(lstrip(text))

\* underlying.split(".")[0]
code_core == <<underlying[1]>>

\* _infer_exchange
exchange == IF underlying[Len(underlying)] = "SH" THEN "SSE" ELSE "SZSE"

---------------------------------------------------------------------------
\* _load_price_history.

fund_daily_empty == DOMAIN pro.fund_daily = {}

\* df after lines 30-32: the fund feed, the equity feed when the fund feed is empty.
price_rows == IF fund_daily_empty THEN pro.daily ELSE pro.fund_daily

\* Variant: the equity feed is asked whatever the fund feed returned.
price_requests_both_feeds == <<<<"fund_daily">>, <<"daily">>>>

\* The requests of lines 30-32.
price_requests ==
    <<<<"fund_daily">>>> \o (IF fund_daily_empty THEN <<<<"daily">>>> ELSE <<>>)

\* lines 37-39: to_numeric, dropna(subset=["close"])
price_df ==
    [d \in {q \in DOMAIN price_rows : price_rows[q] # NaN} |-> price_rows[d]]

---------------------------------------------------------------------------
\* _load_option_chain.

\* line 114: the name of the fund, or the code when fund_basic has no row.
fallback_name == IF pro.fund_basic # <<>> THEN pro.fund_basic ELSE code_core

\* lines 59-64: a set, so equal variants are one keyword.
keywords ==
    {fallback_name,
     strip(replace(fallback_name, "ETF", <<>>)),
     strip(replace(fallback_name, "ETF", <<"ETF", "Options">>)),
     strip(replace(replace(fallback_name, "SSE", <<>>), "SZSE", <<>>))}

meta == pro.opt_basic

\* line 56
code_match == SelectSeq(meta, LAMBDA r : contains(r.opt_code, code_core))

\* line 68
name_match(kw) == SelectSeq(meta, LAMBDA r : contains(r.name, kw))

\* Variant: the name variants are tried only in the order in which lines 60-63
\* write them.
filtered_choices_in_written_order ==
    LET written == <<fallback_name,
                     strip(replace(fallback_name, "ETF", <<>>)),
                     strip(replace(fallback_name, "ETF", <<"ETF", "Options">>)),
                     strip(replace(replace(fallback_name, "SSE", <<>>), "SZSE", <<>>))>>
        hit(k) == written[k] # <<>> /\ name_match(written[k]) # <<>>
        hits   == {k \in 1..4 : hit(k)}
    IN  IF code_match # <<>> THEN {code_match}
        ELSE IF hits = {} THEN {<<>>}
        ELSE {name_match(written[SetMin(hits)])}

\* Variant: the name variants are tried whether or not a code matched.
filtered_choices_names_too ==
    LET hits == {name_match(kw) : kw \in keywords \ {<<>>}} \ {<<>>}
    IN  IF code_match # <<>> THEN {code_match} \cup hits
        ELSE IF hits = {} THEN {<<>>} ELSE hits

\* lines 55-70: what filtered can be when the matching is over.  The for loop
\* of line 65 walks a set of strings, whose order is not fixed by the program:
\* any keyword with a match can be the first one tried that has a match.
filtered_choices ==
    IF code_match # <<>> THEN {code_match}
    ELSE LET hits == {name_match(kw) : kw \in keywords \ {<<>>}} \ {<<>>}
         IN  IF hits = {} THEN {<<>>} ELSE hits

\* line 82: dropna(subset=["exercise_price", "per_unit", "maturity_date"])
cleaned(filtered) ==
    SelectSeq(filtered, LAMBDA r : /\ r.exercise_price # NaN
                                   /\ r.per_unit # NaN
                                   /\ r.maturity_date # NaT)

---------------------------------------------------------------------------
\* run_wheel_backtest: validation, loading, initial state.

\* Variant: a band with otm_max = otm_min is accepted.
config_invalid_empty_band_accepted ==
    \/ pro.is_none
    \/ underlying = <<>>
    \/ otm_min < 0
    \/ otm_max < otm_min

\* Lines 99-104; the tool of server.py makes the same three tests before the call.
config_invalid ==
    \/ pro.is_none
    \/ underlying = <<>>
    \/ otm_min < 0
    \/ otm_max <= otm_min

\* raise WheelBacktestError(msg): nothing of the run exists.
Raise(msg, sent) ==
    /\ pc' = "error"
    /\ ret' = <<msg>>
    /\ requests' = sent
    /\ UNCHANGED <<loaded, contract_unit, months, idx, cash, shares, max_margin,
                   trades, equity_curve, cache, lookups>>

\* Lines 99-130 and 195-197: the arguments are validated, the data is loaded,
\* the multiplier is taken from the first row of the catalog, the entry dates
\* are computed, the state is created.
Start ==
    /\ pc = "start"
    /\ IF config_invalid
       THEN Raise("Invalid configuration", <<>>)
       ELSE IF DOMAIN price_rows = {}
       THEN Raise("No price data returned", price_requests)
       ELSE IF DOMAIN price_df = {}
       THEN Raise("Price data contained no usable close values", price_requests)
       ELSE IF meta = <<>>
       THEN Raise("No option metadata returned",
                  price_requests \o <<<<"fund_basic">>, <<"opt_basic", exchange>>>>)
       ELSE \E filtered \in filtered_choices :
            IF filtered = <<>>
            THEN Raise("No option contracts matched the underlying",
                       price_requests \o <<<<"fund_basic">>, <<"opt_basic", exchange>>>>)
            ELSE IF cleaned(filtered) = <<>>
            THEN Raise("Option contract metadata incomplete",
                       price_requests \o <<<<"fund_basic">>, <<"opt_basic", exchange>>>>)
            ELSE IF pro.trade_cal = {}
            THEN Raise("No trading days returned",
                       price_requests \o <<<<"fund_basic">>, <<"opt_basic", exchange>>,
                                           <<"trade_cal", exchange>>>>)
            ELSE /\ pc' = "loop"
                 /\ requests' = price_requests \o <<<<"fund_basic">>,
                                   <<"opt_basic", exchange>>, <<"trade_cal", exchange>>>>
                 /\ price_map' = price_df
                 /\ option_basic' = cleaned(filtered)
                 /\ contract_unit' = option_basic'[1].per_unit
                 /\ trade_days' = sort_values(pro.trade_cal)
                 /\ months' = month_entries'
                 /\ idx' = 1
                 /\ cash' = InitialCapital
                 /\ shares' = 0
                 /\ max_margin' = 0
                 /\ trades' = <<>>
                 /\ equity_curve' = <<>>
                 /\ cache' = <<>>
                 /\ lookups' = <<>>
                 /\ UNCHANGED ret
    /\ UNCHANGED <<args, quotes, option_type, chosen, opt_px, implied_vol, pre, outcome, picks,
                   call, prior, solver, cur>>

snapshot == [cash |-> cash, shares |-> shares, max_margin |-> max_margin,
             trades |-> trades, equity_curve |-> equity_curve]

\* Variant of Pick: the margin of a put is tracked as soon as the contract is
\* chosen, before its quote is looked up.
Pick_margin_before_quote ==
    /\ pc = "loop"
    /\ idx <= Len(months)
    /\ LET opt_type == side_for(shares)
           found    == pick_option(entry, spot, opt_type)
       IN  /\ option_type' = opt_type
           /\ chosen' = found
           /\ picks' = Append(picks, [entry |-> entry, side |-> opt_type, shares |-> shares])
           /\ pre' = snapshot
           /\ max_margin' = IF found # None /\ opt_type = "P"
                            THEN Max(max_margin,
                                     option_basic[found].exercise_price * contract_unit)
                            ELSE max_margin
           /\ IF found = None
              THEN /\ idx' = idx + 1
                   /\ outcome' = "no_contract"
                   /\ pc' = "loop"
              ELSE /\ pc' = "quote"
                   /\ UNCHANGED <<idx, outcome>>
    /\ UNCHANGED <<data, contract_unit, months, cash, shares, trades, equity_curve,
                   cache, opt_px, implied_vol, lookups, call, ret, quotes, requests,
                   prior, solver, cur>>

\* Lines 199-206: the head of one cycle, up to the result of pick_option.
Pick ==
    /\ pc = "loop"
    /\ idx <= Len(months)
    /\ LET opt_type == side_for(shares)
           found    == pick_option(entry, spot, opt_type)
       IN  /\ option_type' = opt_type
           /\ chosen' = found
           /\ picks' = Append(picks, [entry |-> entry, side |-> opt_type, shares |-> shares])
           /\ pre' = snapshot
           /\ IF found = None
              THEN /\ idx' = idx + 1
                   /\ outcome' = "no_contract"
                   /\ pc' = "loop"
              ELSE /\ pc' = "quote"
                   /\ UNCHANGED <<idx, outcome>>
    /\ UNCHANGED <<data, contract_unit, months, cash, shares, max_margin, trades,
                   equity_curve, cache, opt_px, implied_vol, lookups, call, ret, quotes,
                   requests, prior, solver, cur>>

\* What pro.opt_daily answers for one (contract, date): no row (None) or the
\* close of the first row.
QuoteCloses == {2}
Responses == {None} \cup QuoteCloses

\* pro.opt_daily is a function of its request: a request made before gets the
\* answer it got, a new one any answer.
answers(key) == IF key \in DOMAIN quotes THEN {quotes[key]} ELSE Responses

learn(memo, key, answer) ==
    [k \in DOMAIN memo \cup {key} |-> IF k = key THEN answer ELSE memo[k]]

\* Variant: an empty answer for the next trading day is followed by a request
\* for the trading day after it.
second_try_one_day_further(ts_code, next_day) ==
    IF nearest_trade_day(next_day, TRUE) # None
    THEN <<<<"opt_daily", ts_code, next_day>>,
           <<"opt_daily", ts_code, nearest_trade_day(next_day, TRUE)>>>>
    ELSE <<<<"opt_daily", ts_code, next_day>>>>

\* line 161: the one request option_close sends after an empty first answer.
second_try(ts_code, next_day) == <<<<"opt_daily", ts_code, next_day>>>>

\* Lines 164-170: the pair made of the first row of a non-empty answer.  Every
\* row of the feed carries the same implied_vol (pro.implied_vol), NaN when
\* the feed has none.
quote_of(close) ==
    <<close, IF pro.implied_vol # NaN THEN pro.implied_vol ELSE None>>

\* Variant: option_close never looks into the cache.
option_close_always_asks(ts_code, trade_date) ==
    LET key      == <<ts_code, trade_date>>
        next_day == nearest_trade_day(trade_date, TRUE)
        key2     == <<ts_code, next_day>>
    IN  \E first \in answers(key),
           second \in (IF next_day # None THEN answers(key2) ELSE {None}) :
          LET again == first = None /\ next_day # None
              df    == IF again THEN second ELSE first
              value == IF df = None THEN <<>> ELSE quote_of(df)
          IN  /\ requests' = <<<<"opt_daily", ts_code, trade_date>>>>
                             \o (IF again THEN second_try(ts_code, next_day) ELSE <<>>)
              /\ quotes' = IF again THEN learn(learn(quotes, key, first), key2, second)
                           ELSE learn(quotes, key, first)
              /\ cache' = IF df = None THEN cache ELSE learn(cache, key, value)
              /\ lookups' = Append(lookups, [key |-> key, quote |-> value])

\* option_close(ts_code, trade_date), lines 152-172.  first and second are the
\* answers to the two requests it may send; what it returns is the quote of
\* the last entry of lookups, <<>> for None.
option_close(ts_code, trade_date) ==
    LET key      == <<ts_code, trade_date>>
        next_day == nearest_trade_day(trade_date, TRUE)
        key2     == <<ts_code, next_day>>
    IN  \E first \in answers(key),
           second \in (IF next_day # None THEN answers(key2) ELSE {None}) :
          LET hit   == key \in DOMAIN cache
              again == first = None /\ next_day # None
              df    == IF again THEN second ELSE first
              value == IF hit THEN cache[key]
                       ELSE IF df = None THEN <<>> ELSE quote_of(df)
          IN  /\ requests' = IF hit THEN <<>>
                             ELSE <<<<"opt_daily", ts_code, trade_date>>>>
                                  \o (IF again THEN second_try(ts_code, next_day)
                                      ELSE <<>>)
              /\ quotes' = IF hit THEN quotes
                           ELSE IF again THEN learn(learn(quotes, key, first), key2, second)
                           ELSE learn(quotes, key, first)
              /\ cache' = IF hit \/ df = None THEN cache ELSE learn(cache, key, value)
              /\ lookups' = Append(lookups, [key |-> key, quote |-> value])

\* Lines 210-213: the call of option_close for the chosen contract, the test of
\* its result, the unpacking of the pair.
OptionClose ==
    /\ pc = "quote"
    /\ option_close(row.ts_code, entry)
    /\ LET opt_data == lookups'[Len(lookups')].quote
       IN  IF opt_data = <<>>
           THEN /\ idx' = idx + 1
                /\ outcome' = "no_quote"
                /\ pc' = "loop"
                /\ UNCHANGED <<opt_px, implied_vol>>
           ELSE /\ opt_px' = opt_data[1]
                /\ implied_vol' = opt_data[2]
                /\ pc' = "credit"
                /\ UNCHANGED <<idx, outcome>>
    /\ UNCHANGED <<data, contract_unit, months, cash, shares, max_margin, trades,
                   equity_curve, option_type, chosen, pre, picks, call, ret, prior, solver, cur>>

\* utils/option_math.py: estimate_implied_vol.
\*
\* A price is a whole number of ticks of 1e-5.  A volatility is a whole number
\* of steps of 1e-4 / VolDen, with VolDen a power of two large enough for
\* every midpoint the bisection can form to be a whole number of steps: the
\* arithmetic of the model is exact, where the program rounds to a double.

MaxIterations == 3

PriceScale == 100000

VolDen == 2 ^ (MaxIterations + 1)

\* low, high = 1e-4, 5.0
low_0 == 1 * VolDen
high_0 == 50000 * VolDen

\* black_scholes_price(spot, strike, days / 365, 0.02, sigma, option_type) at
\* sigma = 1e-4 (price_low) and at sigma = 5.0 (price_high), in ticks rounded to
\* the nearest, for days = 1..8, for the spots and the strikes of the runs.
EndPrices ==
    {
      [opt_type |-> "P", spot |-> 1, strike |-> 1,
       price_low  |-> <<0, 0, 0, 0, 0, 0, 0, 0>>,
       price_high |-> <<10408, 14675, 17921, 20632, 23001, 25123, 27057, 28842>>],
      [opt_type |-> "P", spot |-> 2, strike |-> 1,
       price_low  |-> <<0, 0, 0, 0, 0, 0, 0, 0>>,
       price_high |-> <<46, 612, 1723, 3122, 4652, 6236, 7829, 9410>>],
      [opt_type |-> "P", spot |-> 3, strike |-> 1,
       price_low  |-> <<0, 0, 0, 0, 0, 0, 0, 0>>,
       price_high |-> <<0, 27, 194, 572, 1148, 1886, 2749, 3702>>],
      [opt_type |-> "P", spot |-> 1, strike |-> 2,
       price_low  |-> <<99989, 99978, 99967, 99956, 99945, 99934, 99923, 99912>>,
       price_high |-> <<100035, 100591, 101693, 103083, 104607, 106183, 107769, 109343>>],
      [opt_type |-> "P", spot |-> 2, strike |-> 2,
       price_low  |-> <<0, 0, 0, 0, 0, 0, 0, 0>>,
       price_high |-> <<20816, 29351, 35841, 41265, 46001, 50246, 54115, 57684>>],
      [opt_type |-> "P", spot |-> 3, strike |-> 2,
       price_low  |-> <<0, 0, 0, 0, 0, 0, 0, 0>>,
       price_high |-> <<1666, 6203, 11081, 15781, 20218, 24395, 28334, 32060>>],
      [opt_type |-> "P", spot |-> 1, strike |-> 3,
       price_low  |-> <<199984, 199967, 199951, 199934, 199918, 199901, 199885, 199869>>,
       price_high |-> <<199984, 199994, 200146, 200507, 201069, 201793, 202641, 203581>>],
      [opt_type |-> "P", spot |-> 2, strike |-> 3,
       price_low  |-> <<99984, 99967, 99951, 99934, 99918, 99901, 99885, 99869>>,
       price_high |-> <<101651, 106177, 111046, 115739, 120168, 124338, 128271, 131990>>],
      [opt_type |-> "P", spot |-> 3, strike |-> 3,
       price_low  |-> <<0, 0, 0, 0, 0, 0, 0, 0>>,
       price_high |-> <<31224, 44026, 53762, 61897, 69002, 75368, 81172, 86527>>],
      [opt_type |-> "C", spot |-> 1, strike |-> 1,
       price_low  |-> <<5, 11, 16, 22, 27, 33, 38, 44>>,
       price_high |-> <<10414, 14686, 17937, 20654, 23028, 25156, 27096, 28886>>],
      [opt_type |-> "C", spot |-> 2, strike |-> 1,
       price_low  |-> <<100005, 100011, 100016, 100022, 100027, 100033, 100038, 100044>>,
       price_high |-> <<100051, 100623, 101740, 103144, 104680, 106269, 107868, 109454>>],
      [opt_type |-> "C", spot |-> 3, strike |-> 1,
       price_low  |-> <<200005, 200011, 200016, 200022, 200027, 200033, 200038, 200044>>,
       price_high |-> <<200006, 200038, 200211, 200594, 201175, 201919, 202787, 203746>>],
      [opt_type |-> "C", spot |-> 1, strike |-> 2,
       price_low  |-> <<0, 0, 0, 0, 0, 0, 0, 0>>,
       price_high |-> <<46, 613, 1726, 3127, 4661, 6248, 7846, 9431>>],
      [opt_type |-> "C", spot |-> 2, strike |-> 2,
       price_low  |-> <<11, 22, 33, 44, 55, 66, 77, 88>>,
       price_high |-> <<20827, 29373, 35874, 41309, 46056, 50311, 54191, 57772>>],
      [opt_type |-> "C", spot |-> 3, strike |-> 2,
       price_low  |-> <<100011, 100022, 100033, 100044, 100055, 100066, 100077, 100088>>,
       price_high |-> <<101677, 106225, 111114, 115825, 120273, 124461, 128411, 132148>>],
      [opt_type |-> "C", spot |-> 1, strike |-> 3,
       price_low  |-> <<0, 0, 0, 0, 0, 0, 0, 0>>,
       price_high |-> <<0, 27, 195, 573, 1151, 1891, 2756, 3712>>],
      [opt_type |-> "C", spot |-> 2, strike |-> 3,
       price_low  |-> <<0, 0, 0, 0, 0, 0, 0, 0>>,
       price_high |-> <<1668, 6210, 11096, 15804, 20251, 24437, 28386, 32121>>],
      [opt_type |-> "C", spot |-> 3, strike |-> 3,
       price_low  |-> <<16, 33, 49, 66, 82, 99, 115, 131>>,
       price_high |-> <<31241, 44059, 53811, 61963, 69084, 75467, 81287, 86658>>]
    }

end_prices(s, strike, opt_type) ==
    CHOOSE e \in EndPrices : e.opt_type = opt_type /\ e.spot = s /\ e.strike = strike

\* What estimate_implied_vol(premium, s, strike, days / 365, opt_type) can return,
\* lines 40-46: None when an argument is not positive or the premium is outside
\* the two end prices; otherwise the bisection returns a volatility of the
\* bracket.
estimate_implied_vol(premium, s, strike, days, opt_type) ==
    IF premium <= 0 \/ days <= 0 \/ s <= 0 \/ strike <= 0
    THEN {None}
    ELSE IF \/ premium * PriceScale < end_prices(s, strike, opt_type).price_low[days]
            \/ premium * PriceScale > end_prices(s, strike, opt_type).price_high[days]
    THEN {None}
    ELSE low_0..high_0

\* Lines 215-219: days_to_expiry.
days_to_expiry == Max(row.maturity_date - strptime(entry), 0)

\* Variant: the solver is called whether or not the quote carries a volatility.
vol_after_solver_always_called ==
    estimate_implied_vol(opt_px, spot, row.exercise_price, days_to_expiry, option_type)

\* Lines 214-220: implied_vol after the test of line 214.
vol_after_solver ==
    IF implied_vol = None
    THEN estimate_implied_vol(opt_px, spot, row.exercise_price, days_to_expiry,
                              option_type)
    ELSE {implied_vol}

\* Variant of Credit: the margin of a put is not tracked when the premium is
\* credited.
Credit_without_margin ==
    /\ pc = "credit"
    /\ \E vol \in vol_after_solver : implied_vol' = vol
    /\ cash' = cash + premium_of(opt_px)
    /\ pc' = "settle"
    /\ UNCHANGED <<data, contract_unit, months, idx, shares, max_margin, trades,
                   equity_curve, cache, option_type, chosen, opt_px, pre, outcome,
                   picks, lookups, call, ret, quotes, requests, prior, solver, cur>>

\* Variant of Credit: the margin of a put replaces the running maximum.
Credit_margin_of_last_put ==
    /\ pc = "credit"
    /\ \E vol \in vol_after_solver : implied_vol' = vol
    /\ cash' = cash + premium_of(opt_px)
    /\ max_margin' = IF option_type = "P"
                     THEN row.exercise_price * contract_unit
                     ELSE max_margin
    /\ pc' = "settle"
    /\ UNCHANGED <<data, contract_unit, months, idx, shares, trades, equity_curve,
                   cache, option_type, chosen, opt_px, pre, outcome, picks, lookups,
                   call, ret, quotes, requests, prior, solver, cur>>

\* Lines 213-224: the implied volatility is solved for when the quote has
\* none, the premium is credited, the margin of a put is tracked.
Credit ==
    /\ pc = "credit"
    /\ \E vol \in vol_after_solver : implied_vol' = vol
    /\ cash' = cash + premium_of(opt_px)
    /\ max_margin' = IF option_type = "P"
                     THEN Max(max_margin, row.exercise_price * contract_unit)
                     ELSE max_margin
    /\ pc' = "settle"
    /\ UNCHANGED <<data, contract_unit, months, idx, shares, trades, equity_curve,
                   cache, option_type, chosen, opt_px, pre, outcome, picks, lookups,
                   call, ret, quotes, requests, prior, solver, cur>>

\* Lines 226-270: settlement price, assignment, the two appends.
Settle ==
    /\ pc = "settle"
    /\ LET strike       == row.exercise_price
           maturity     == strftime(row.maturity_date)
           expiry_price == price_on_or_before(maturity)
           assigned     == is_assigned(option_type, expiry_price, strike)
           new_cash     == cash_after(option_type, assigned, cash, strike)
           new_shares   == shares_after(option_type, assigned, shares)
           holding_value   == new_shares * spot
           portfolio_value == new_cash + holding_value
       IN  IF expiry_price = None
           THEN /\ outcome' = "no_expiry"
                /\ UNCHANGED <<cash, shares, trades, equity_curve>>
           ELSE /\ outcome' = "settled"
                /\ cash' = new_cash
                /\ shares' = new_shares
                /\ equity_curve' = Append(equity_curve,
                       [date |-> entry, cash |-> new_cash,
                        holding_value |-> holding_value,
                        portfolio_value |-> portfolio_value])
                /\ trades' = Append(trades,
                       [month |-> to_period(entry),
                        side |-> IF option_type = "P" THEN "PUT" ELSE "CALL",
                        option_code |-> row.ts_code,
                        entry_date |-> entry,
                        expiry |-> maturity,
                        strike |-> strike,
                        spot |-> spot,
                        premium |-> premium_of(opt_px),
                        expiry_price |-> expiry_price,
                        assigned |-> assigned,
                        cash_balance |-> new_cash,
                        holding_value |-> holding_value,
                        portfolio_value |-> portfolio_value,
                        implied_vol |-> implied_vol])
    /\ idx' = idx + 1
    /\ pc' = "loop"
    /\ UNCHANGED <<data, contract_unit, months, max_margin, cache, option_type,
                   chosen, opt_px, implied_vol, pre, picks, lookups, call, ret,
                   quotes, requests, prior, solver, cur>>

\* Lines 272-301: the result of the run.  last_price is the close of the last
\* price row; the two return ratios are left out.
result ==
    LET dates      == {strptime(d) : d \in DOMAIN price_map}
        last_price == price_map[strftime(SetMax(dates))]
        first_px   == price_map[strftime(SetMin(dates))]
    IN  [periods |-> Len(trades),
         ending_value |-> cash + shares * last_price,
         cash |-> cash,
         shares |-> shares,
         last_price |-> last_price,
         max_margin |-> IF max_margin # 0 THEN max_margin ELSE contract_unit * first_px,
         trades |-> trades,
         equity_curve |-> equity_curve]

\* The for loop of line 199 is exhausted; lines 272-301 build the result.
Finish ==
    /\ pc = "loop"
    /\ idx > Len(months)
    /\ pc' = "done"
    /\ ret' = <<result>>
    /\ UNCHANGED <<data, contract_unit, months, idx, cash, shares, max_margin, trades,
                   equity_curve, cache, option_type, chosen, opt_px, implied_vol, pre, outcome,
                   picks, lookups, call, quotes, requests, prior, solver, cur>>

---------------------------------------------------------------------------
\* The external data a run is started on.

\* Every price history over the window: any set of dates, any closes.
PriceMaps == UNION {[S -> Prices] : S \in SUBSET DateStrs}

\* Trading calendars (the cal_date column of pro.trade_cal): every day of the
\* window but the first, or the first and the last day only.
TradeCalendars == {{n \in AllDays : n >= 2}, {1, LastDay}}

\* The fund asked for, and the name pro.fund_basic gives for it.
Underlying == <<"510050", "SH">>
FundName == <<"SSE", "50", "ETF">>

\* One put and one call maturing at the end of every month, all struck at 2 and
\* listed from the first day; the first row's multiplier is first_unit, every
\* other row's is other_unit.  Every row carries the code of the fund.
Units == {1, 2}

catalog(first_unit, other_unit) ==
    [k \in 1..(2 * NumMonths) |->
        [ts_code |-> k,
         opt_code |-> <<"OP", "510050">>,
         name |-> <<"50", "ETF", IF k % 2 = 1 THEN "Put" ELSE "Call">>,
         call_put |-> IF k % 2 = 1 THEN "P" ELSE "C",
         exercise_price |-> 2,
         per_unit |-> IF k = 1 THEN first_unit ELSE other_unit,
         list_date |-> 1,
         delist_date |-> NaT,
         maturity_date |-> DaysPerMonth * ((k + 1) \div 2)]]

\* Catalogs whose rows agree on the multiplier, or all but the first one do.
Catalogs == {catalog(u, SetMax(Units)) : u \in Units}

\* A client whose fund feed has the rows of fund_daily.
client(fund_daily, daily, fund_basic, opt_basic, trade_cal) ==
    [is_none |-> FALSE, fund_daily |-> fund_daily, daily |-> daily,
     fund_basic |-> fund_basic, opt_basic |-> opt_basic, trade_cal |-> trade_cal,
     implied_vol |-> NaN]

Clients == {client(p, <<>>, FundName, c, t) :
                p \in PriceMaps, c \in Catalogs, t \in TradeCalendars}

NoCall == <<>>

NoSolver == [low |-> 0, high |-> 0, mid |-> 0, evals |-> 0]

\* Nothing has run: no state, no history.
Fresh ==
    /\ price_map = <<>>
    /\ option_basic = <<>>
    /\ trade_days = <<>>
    /\ contract_unit = 0
    /\ months = <<>>
    /\ idx = 1
    /\ cash = 0
    /\ shares = 0
    /\ max_margin = 0
    /\ trades = <<>>
    /\ equity_curve = <<>>
    /\ cache = <<>>
    /\ option_type = "P"
    /\ chosen = None
    /\ opt_px = None
    /\ implied_vol = None
    /\ pre = [cash |-> 0, shares |-> 0, max_margin |-> 0,
              trades |-> <<>>, equity_curve |-> <<>>]
    /\ outcome = "none"
    /\ picks = <<>>
    /\ lookups = <<>>
    /\ requests = <<>>
    /\ solver = NoSolver
    /\ cur = None
    /\ call = NoCall
    /\ ret = <<>>

Init ==
    /\ pro \in Clients
    /\ underlying = Underlying
    /\ otm_min = 0
    /\ otm_max = 50
    /\ quotes = <<>>
    /\ prior = <<>>
    /\ pc = "start"
    /\ Fresh

Next == Start \/ Pick \/ OptionClose \/ Credit \/ Settle \/ Finish

Spec == Init /\ [][Next]_vars

\* The run is a sequential program: as long as a statement is left to execute,
\* one is executed.  Every price history, on the calendar that starts on the
\* second day and the catalog whose first multiplier differs.
InitLive ==
    /\ Init
    /\ pro.trade_cal = {n \in AllDays : n >= 2}
    /\ pro.opt_basic = catalog(1, 2)

SpecLive == InitLive /\ [][Next]_vars /\ WF_vars(Next)

---------------------------------------------------------------------------
\* Runs on catalogs whose strikes differ from month to month.

\* rows with the strike of every contract that matures in an odd month set to
\* odd, of every other contract to even.
struck(rows, odd, even) ==
    [k \in DOMAIN rows |->
        [rows[k] EXCEPT !.exercise_price = IF ((k + 1) \div 2) % 2 = 1 THEN odd ELSE even]]

\* Strikes that fall from the first month to the second, and that rise.
StrikeCatalogs == {struck(catalog(2, 2), 2, 1), struck(catalog(2, 2), 1, 2)}

InitStrikes ==
    /\ pro \in {client(p, <<>>, FundName, c, t) :
                  p \in PriceMaps, c \in StrikeCatalogs, t \in TradeCalendars}
    /\ underlying = Underlying
    /\ otm_min = 0
    /\ otm_max = 50
    /\ quotes = <<>>
    /\ prior = <<>>
    /\ pc = "start"
    /\ Fresh

SpecStrikes == InitStrikes /\ [][Next]_vars

---------------------------------------------------------------------------
\* The tool called twice on the same client: every call is a run of its own,
\* with its own catalog construction, its own state and its own cache.

\* backtest_wheel_strategy is called again after a run that returned a result.
Rerun ==
    /\ pc = "done"
    /\ prior = <<>>
    /\ prior' = ret
    /\ pc' = "start"
    /\ price_map' = <<>>
    /\ option_basic' = <<>>
    /\ trade_days' = <<>>
    /\ contract_unit' = 0
    /\ months' = <<>>
    /\ idx' = 1
    /\ cash' = 0
    /\ shares' = 0
    /\ max_margin' = 0
    /\ trades' = <<>>
    /\ equity_curve' = <<>>
    /\ cache' = <<>>
    /\ option_type' = "P"
    /\ chosen' = None
    /\ opt_px' = None
    /\ implied_vol' = None
    /\ pre' = [cash |-> 0, shares |-> 0, max_margin |-> 0,
               trades |-> <<>>, equity_curve |-> <<>>]
    /\ outcome' = "none"
    /\ picks' = <<>>
    /\ lookups' = <<>>
    /\ requests' = <<>>
    /\ ret' = <<>>
    /\ UNCHANGED <<args, quotes, call, solver, cur>>

\* Contract rows under another code and name, numbered from offset + 1.
named(rows, code, name, offset) ==
    [k \in DOMAIN rows |->
        [rows[k] EXCEPT !.ts_code = k + offset, !.opt_code = code, !.name = name]]

\* What pro.opt_basic returns for the exchange: two series of contracts, the
\* second with a multiplier of 2, each under its own name; all rows carry the
\* code of the fund, or none does.
OptCodes == {<<"OP", "510050">>, <<"OP", "159915">>}
NamePairs == {<<<<"50", "ETF">>, <<"SSE", "50", "Index">>>>,
              <<<<"50", "ETF">>, <<"50", "ETF">>>>,
              <<<<"300", "ETF">>, <<"300", "ETF">>>>}

RawCatalogs ==
    {named(catalog(1, 1), code, names[1], 0)
         \o named(catalog(2, 2), code, names[2], 2 * NumMonths) :
       code \in OptCodes, names \in NamePairs}

InitRerun ==
    /\ pro \in {client(p, <<>>, f, c, AllDays) :
                  p \in [DateStrs -> Prices], f \in {FundName, <<>>}, c \in RawCatalogs}
    /\ underlying = Underlying
    /\ otm_min = 0
    /\ otm_max = 50
    /\ quotes = <<>>
    /\ prior = <<>>
    /\ pc = "start"
    /\ Fresh

NextRerun == Next \/ Rerun

SpecRerun == InitRerun /\ [][NextRerun]_vars

---------------------------------------------------------------------------
\* The run started on every kind of argument and on feeds that may be empty.

OtmConfigs == {<<0, 50>>, <<-10, 50>>, <<50, 50>>, <<50, 0>>}

\* A close of 2 on the first day of every month and of 1 on the other days.
saw_tooth == [d \in DateStrs |-> IF d % 100 = 1 THEN 2 ELSE 1]

FundFeeds == {<<>>,
              saw_tooth,
              [d \in DateStrs |-> NaN],
              [saw_tooth EXCEPT ![101] = NaN]}

EquityFeeds == {<<>>, [d \in DateStrs |-> 3]}

\* Nothing; the contracts of the fund; contracts of another fund; contracts of
\* the fund without a multiplier, or with the first multiplier missing, or with
\* the first listing date missing.
OptionFeeds ==
    {<<>>,
     catalog(1, 2),
     named(catalog(1, 2), <<"OP", "159915">>, <<"300", "ETF">>, 0),
     [k \in DOMAIN catalog(1, 2) |-> [catalog(1, 2)[k] EXCEPT !.per_unit = NaN]],
     [catalog(1, 2) EXCEPT ![1].per_unit = NaN],
     [catalog(1, 2) EXCEPT ![1].list_date = NaT]}

InitLoad ==
    /\ pro \in {[client(f, e, n, o, c) EXCEPT !.is_none = b] :
                  f \in FundFeeds, e \in EquityFeeds, n \in {FundName, <<>>},
                  o \in OptionFeeds, c \in {{}, AllDays}, b \in BOOLEAN}
    /\ underlying \in {Underlying, <<>>}
    /\ \E band \in OtmConfigs : otm_min = band[1] /\ otm_max = band[2]
    /\ quotes = <<>>
    /\ prior = <<>>
    /\ pc = "start"
    /\ Fresh

SpecLoad == InitLoad /\ [][Next]_vars

---------------------------------------------------------------------------
\* The run started on catalogs that match by code, by name only, or not at
\* all, complete or without any multiplier.

\* rows with every per_unit missing.
blank(rows) == [k \in DOMAIN rows |-> [rows[k] EXCEPT !.per_unit = NaN]]

ChainFeeds == RawCatalogs \cup {blank(c) : c \in RawCatalogs}

InitChain ==
    /\ pro \in {client(saw_tooth, <<>>, f, c, AllDays) :
                  f \in {FundName, <<>>}, c \in ChainFeeds}
    /\ underlying = Underlying
    /\ otm_min = 0
    /\ otm_max = 50
    /\ quotes = <<>>
    /\ prior = <<>>
    /\ pc = "start"
    /\ Fresh

SpecChain == InitChain /\ [][Next]_vars

---------------------------------------------------------------------------
\* Single calls of the helpers, on data drawn more widely than a run needs.

NoClient == client(<<>>, <<>>, <<>>, <<>>, {})

\* The state a helper is called in: only the data it closes over is set.
NoRun ==
    /\ pro = NoClient
    /\ underlying = Underlying
    /\ quotes = <<>>
    /\ prior = <<>>
    /\ pc = "idle"
    /\ contract_unit = 0
    /\ months = <<>>
    /\ idx = 1
    /\ cash = 0
    /\ shares = 0
    /\ max_margin = 0
    /\ trades = <<>>
    /\ equity_curve = <<>>
    /\ cache = <<>>
    /\ option_type = "P"
    /\ chosen = None
    /\ opt_px = None
    /\ implied_vol = None
    /\ pre = [cash |-> 0, shares |-> 0, max_margin |-> 0,
              trades |-> <<>>, equity_curve |-> <<>>]
    /\ outcome = "none"
    /\ picks = <<>>
    /\ lookups = <<>>
    /\ requests = <<>>
    /\ solver = NoSolver
    /\ cur = None
    /\ call = NoCall
    /\ ret = None

Returned(c, r) ==
    /\ pc = "idle"
    /\ pc' = "returned"
    /\ call' = c
    /\ ret' = r
    /\ UNCHANGED <<data, contract_unit, months, idx, cash, shares, max_margin, trades,
                   equity_curve, cache, option_type, chosen, opt_px, implied_vol, pre, outcome,
                   picks, lookups, quotes, requests, prior, solver, cur>>

\* nearest_trade_day on every non-empty calendar of the window.
InitNearest ==
    /\ trade_days \in {sort_values(S) : S \in (SUBSET AllDays) \ {{}}}
    /\ price_map = <<>>
    /\ option_basic = <<>>
    /\ otm_min = 0
    /\ otm_max = 50
    /\ NoRun

CallNearestForward ==
    \E d \in DateStrs : Returned(<<"nearest_trade_day", d, TRUE>>, nearest_trade_day(d, TRUE))

CallNearestBackward ==
    \E d \in DateStrs : Returned(<<"nearest_trade_day", d, FALSE>>, nearest_trade_day(d, FALSE))

NextNearest == CallNearestForward \/ CallNearestBackward

SpecNearest == InitNearest /\ [][NextNearest]_vars

\* price_on_or_before on every price history and every first trading day.
InitPrice ==
    /\ trade_days \in {sort_values({n \in AllDays : n >= k}) : k \in AllDays}
    /\ price_map \in PriceMaps
    /\ option_basic = <<>>
    /\ otm_min = 0
    /\ otm_max = 50
    /\ NoRun

CallPriceOnOrBefore ==
    \E d \in DateStrs : Returned(<<"price_on_or_before", d>>, price_on_or_before(d))

NextPrice == CallPriceOnOrBefore

SpecPrice == InitPrice /\ [][NextPrice]_vars

\* pick_option on every catalog of at most MaxContracts rows.
MaxContracts == 2

ContractRows ==
    [ts_code : {0}, call_put : {"P", "C"}, exercise_price : {1, 2}, per_unit : {1},
     list_date : {1, 3}, delist_date : {NaT, 2}, maturity_date : {3, 4}]

\* ts_code names the row.
numbered(rows) == [k \in DOMAIN rows |-> [rows[k] EXCEPT !.ts_code = k]]

OtmBands == {<<0, 50>>, <<10, 40>>}

InitPick ==
    /\ option_basic \in {numbered(rows) :
                           rows \in UNION {[1..n -> ContractRows] : n \in 1..MaxContracts}}
    /\ \E band \in OtmBands : otm_min = band[1] /\ otm_max = band[2]
    /\ trade_days = <<1>>
    /\ price_map = <<>>
    /\ NoRun

CallPickOption ==
    \E d \in DateStrs, s \in Prices, t \in {"P", "C"} :
        Returned(<<"pick_option", d, s, t>>, pick_option(d, s, t))

NextPick == CallPickOption

SpecPick == InitPick /\ [][NextPick]_vars

---------------------------------------------------------------------------
\* nearest_trade_day and price_on_or_before, one pass of their loops at a time.

\* Variant: the backward walk does not move.
timedelta_backward_stalls(forward) == IF forward THEN 1 ELSE 0

\* line 134: timedelta(days=1 if forward else -1), in days.
timedelta(forward) == IF forward THEN 1 ELSE -1

\* Every non-empty calendar of the window; every set of priced dates.
InitWalk ==
    /\ trade_days \in {sort_values(S) : S \in (SUBSET AllDays) \ {{}}}
    /\ price_map \in {[d \in S |-> SetMax(Prices)] : S \in SUBSET DateStrs}
    /\ option_basic = <<>>
    /\ otm_min = 0
    /\ otm_max = 50
    /\ NoRun

\* line 133, line 143: the call; current is the date asked for.
CallWalk ==
    /\ pc = "idle"
    /\ \E d \in DateStrs :
         /\ cur' = strptime(d)
         /\ \/ \E forward \in BOOLEAN :
                 call' = <<"nearest_trade_day", d, forward>> /\ pc' = "nearest"
            \/ call' = <<"price_on_or_before", d>> /\ pc' = "price"
    /\ UNCHANGED <<data, contract_unit, months, idx, cash, shares, max_margin, trades,
                   equity_curve, cache, option_type, chosen, opt_px, implied_vol, pre,
                   outcome, picks, lookups, quotes, requests, prior, solver, ret>>

\* lines 135-140: one pass of the loop of nearest_trade_day.
StepNearest ==
    /\ pc = "nearest"
    /\ cur' = cur + timedelta(call[3])
    /\ IF cur' < trade_days[1] \/ cur' > trade_days[Len(trade_days)]
       THEN pc' = "returned" /\ ret' = None
       ELSE IF cur' \in day_set
       THEN pc' = "returned" /\ ret' = strftime(cur')
       ELSE UNCHANGED <<pc, ret>>
    /\ UNCHANGED <<data, contract_unit, months, idx, cash, shares, max_margin, trades,
                   equity_curve, cache, option_type, chosen, opt_px, implied_vol, pre,
                   outcome, picks, lookups, quotes, requests, prior, solver, call>>

\* lines 144-148: the test of the loop of price_on_or_before and one pass.
StepPrice ==
    /\ pc = "price"
    /\ IF strftime(cur) \in DOMAIN price_map
       THEN pc' = "returned" /\ ret' = price_map[strftime(cur)] /\ UNCHANGED cur
       ELSE /\ cur' = cur - 1
            /\ IF cur' < trade_days[1]
               THEN pc' = "returned" /\ ret' = None
               ELSE UNCHANGED <<pc, ret>>
    /\ UNCHANGED <<data, contract_unit, months, idx, cash, shares, max_margin, trades,
                   equity_curve, cache, option_type, chosen, opt_px, implied_vol, pre,
                   outcome, picks, lookups, quotes, requests, prior, solver, call>>

NextWalk == CallWalk \/ StepNearest \/ StepPrice

\* A call that has begun goes on: the loops are sequential code.
SpecWalk == InitWalk /\ [][NextWalk]_vars /\ WF_vars(StepNearest \/ StepPrice)

---------------------------------------------------------------------------
\* option_close called directly, any number of times on any key, in runs that
\* follow each other on one client.

\* The contracts and the dates asked for (the dates of the first month), and
\* how many calls one run makes at most.
LookupCodes == {1, 2}
LookupDates == {d \in DateStrs : to_period(d) = 1}
MaxLookups == NumMonths + 1

\* An implied_vol the rows of pro.opt_daily can carry: 0.25.
QuoteVol == 2500 * VolDen

InitCache ==
    /\ pro \in {[NoClient EXCEPT !.implied_vol = v] : v \in {NaN, QuoteVol}}
    /\ underlying = Underlying
    /\ otm_min = 0
    /\ otm_max = 50
    /\ quotes = <<>>
    /\ price_map = <<>>
    /\ option_basic = <<>>
    /\ trade_days \in {sort_values(S) : S \in TradeCalendars}
    /\ prior = <<>>
    /\ pc = "idle"
    /\ contract_unit = 0
    /\ months = <<>>
    /\ idx = 1
    /\ cash = 0
    /\ shares = 0
    /\ max_margin = 0
    /\ trades = <<>>
    /\ equity_curve = <<>>
    /\ cache = <<>>
    /\ option_type = "P"
    /\ chosen = None
    /\ opt_px = None
    /\ implied_vol = None
    /\ pre = [cash |-> 0, shares |-> 0, max_margin |-> 0,
              trades |-> <<>>, equity_curve |-> <<>>]
    /\ outcome = "none"
    /\ picks = <<>>
    /\ lookups = <<>>
    /\ requests = <<>>
    /\ solver = NoSolver
    /\ cur = None
    /\ call = NoCall
    /\ ret = <<>>

\* One call of option_close; ret is what it returned, <<>> for None.
CallOptionClose ==
    /\ Len(lookups) < MaxLookups
    /\ \E ts_code \in LookupCodes, trade_date \in LookupDates :
         /\ option_close(ts_code, trade_date)
         /\ call' = <<"option_close", ts_code, trade_date>>
    /\ ret' = lookups'[Len(lookups')].quote
    /\ UNCHANGED <<data, pc, contract_unit, months, idx, cash, shares, max_margin, trades,
                   equity_curve, option_type, chosen, opt_px, implied_vol, pre, outcome,
                   picks, prior, solver, cur>>

\* run_wheel_backtest is called again on the same client: line 150 gives the
\* new run a cache of its own.
NewRun ==
    /\ call # NoCall
    /\ call[1] = "option_close"
    /\ cache' = <<>>
    /\ lookups' = <<>>
    /\ requests' = <<>>
    /\ call' = <<"run_wheel_backtest">>
    /\ ret' = <<>>
    /\ UNCHANGED <<data, quotes, pc, contract_unit, months, idx, cash, shares, max_margin,
                   trades, equity_curve, option_type, chosen, opt_px, implied_vol, pre,
                   outcome, picks, prior, solver, cur>>

NextCache == CallOptionClose \/ NewRun

SpecCache == InitCache /\ [][NextCache]_vars

---------------------------------------------------------------------------
\* Runs on a feed of quotes that carries an implied volatility, or none.

InitVols ==
    /\ pro \in {[client(p, <<>>, FundName, catalog(1, 2), {n \in AllDays : n >= 2})
                    EXCEPT !.implied_vol = v] : p \in PriceMaps, v \in {NaN, QuoteVol}}
    /\ underlying = Underlying
    /\ otm_min = 0
    /\ otm_max = 50
    /\ quotes = <<>>
    /\ prior = <<>>
    /\ pc = "start"
    /\ Fresh

SpecVols == InitVols /\ [][Next]_vars

---------------------------------------------------------------------------
\* estimate_implied_vol, one step of its loop at a time.

\* The contracts the solver is called on.  prices is black_scholes_price(spot,
\* strike, days / 365, 0.02, sigma, option_type), in ticks rounded to the
\* nearest, at sigma = 1e-4 + j * (5.0 - 1e-4) / 64 for j = 0..64; days = 0
\* gives the contract no time to expiry.
VolContracts ==
    <<
     [spot |-> 200000, strike |-> 190000, days |-> 30, option_type |-> "P",
      prices |-> <<
         0, 13, 509, 1608, 2987, 4499, 6082, 7706, 9356, 11023, 12700, 14385,
         16075, 17768, 19462, 21157, 22852, 24545, 26237, 27927, 29613,
         31297, 32978, 34654, 36327, 37995, 39659, 41318, 42971, 44620,
         46262, 47899, 49530, 51154, 52772, 54384, 55988, 57586, 59176,
         60759, 62334, 63902, 65462, 67013, 68557, 70092, 71618, 73136,
         74645, 76144, 77635, 79117, 80589, 82052, 83505, 84948, 86381,
         87805, 89218, 90621, 92014, 93396, 94768, 96129, 97480 >>],
     [spot |-> 200000, strike |-> 210000, days |-> 30, option_type |-> "C",
      prices |-> <<
         0, 30, 692, 1962, 3482, 5118, 6815, 8546, 10298, 12065, 13840,
         15621, 17405, 19191, 20978, 22765, 24551, 26335, 28117, 29896,
         31672, 33445, 35214, 36978, 38739, 40494, 42245, 43990, 45730,
         47464, 49192, 50914, 52629, 54338, 56040, 57735, 59423, 61103,
         62776, 64440, 66097, 67746, 69386, 71018, 72641, 74255, 75860,
         77456, 79043, 80620, 82188, 83746, 85294, 86832, 88360, 89877,
         91384, 92881, 94367, 95843, 97307, 98761, 100203, 101634, 103055 >>],
     [spot |-> 200000, strike |-> 200000, days |-> 1, option_type |-> "C",
      prices |-> <<
         11, 332, 658, 985, 1311, 1637, 1963, 2290, 2616, 2942, 3268, 3594,
         3921, 4247, 4573, 4899, 5225, 5551, 5877, 6203, 6529, 6855, 7181,
         7507, 7833, 8159, 8485, 8810, 9136, 9462, 9788, 10113, 10439, 10764,
         11090, 11415, 11741, 12066, 12391, 12717, 13042, 13367, 13692,
         14017, 14342, 14667, 14992, 15317, 15641, 15966, 16290, 16615,
         16939, 17264, 17588, 17912, 18237, 18561, 18885, 19209, 19532,
         19856, 20180, 20504, 20827 >>],
     [spot |-> 200000, strike |-> 190000, days |-> 0, option_type |-> "P",
      prices |-> <<>>] >>

intrinsic(c) ==
    Max(0, IF c.option_type = "P" THEN c.strike - c.spot ELSE c.spot - c.strike)

\* black_scholes_price of contract c at volatility sigma, a point of the table.
black_scholes_price(c, sigma) ==
    IF c.days <= 0 \/ sigma <= 0 \/ c.spot <= 0 \/ c.strike <= 0
    THEN intrinsic(c)
    ELSE c.prices[((sigma - low_0) * (Len(c.prices) - 1)) \div (high_0 - low_0) + 1]

abs(x) == IF x < 0 THEN 0 - x ELSE x

\* 0.5 * (low + high)
midpoint(low, high) == (low + high) \div 2

\* Variant: when the midpoint prices too high, the lower bound goes back to
\* where it started.
narrowed_resets_low(low, high, mid, price_mid, premium) ==
    IF price_mid > premium THEN [low |-> low_0, high |-> mid]
    ELSE [low |-> mid, high |-> high]

\* lines 52-55
narrowed(low, high, mid, price_mid, premium) ==
    IF price_mid > premium THEN [low |-> low, high |-> mid]
    ELSE [low |-> mid, high |-> high]

Premiums == {-5, 0, 1, 50, 5000, 22852, 49533, 50000, 300000}

SolverIdle ==
    UNCHANGED <<data, contract_unit, months, idx, cash, shares, max_margin, trades,
                equity_curve, cache, option_type, chosen, opt_px, implied_vol, pre, outcome,
                picks, lookups, quotes, requests, prior, cur>>

\* lines 40-46: the call, up to the loop.
EstimateImpliedVol ==
    /\ pc = "idle"
    /\ \E premium \in Premiums, k \in DOMAIN VolContracts, iterations \in 0..MaxIterations :
         LET c == VolContracts[k]
         IN  /\ call' = <<"estimate_implied_vol", premium, k, iterations>>
             /\ IF premium <= 0 \/ c.days <= 0 \/ c.spot <= 0 \/ c.strike <= 0
                THEN pc' = "returned" /\ ret' = None /\ UNCHANGED solver
                ELSE IF \/ premium < black_scholes_price(c, low_0)
                        \/ premium > black_scholes_price(c, high_0)
                THEN pc' = "returned" /\ ret' = None /\ UNCHANGED solver
                ELSE /\ pc' = "bisect"
                     /\ solver' = [low |-> low_0, high |-> high_0, mid |-> 0, evals |-> 0]
                     /\ UNCHANGED ret
    /\ SolverIdle

\* lines 47-55: one pass of the loop.
Bisect ==
    /\ pc = "bisect"
    /\ solver.evals < call[4]
    /\ LET premium   == call[2]
           mid       == midpoint(solver.low, solver.high)
           price_mid == black_scholes_price(VolContracts[call[3]], mid)
           bracket   == narrowed(solver.low, solver.high, mid, price_mid, premium)
       IN  IF abs(price_mid - premium) < PriceScale \div 10000
           THEN /\ pc' = "returned"
                /\ ret' = mid
                /\ solver' = [solver EXCEPT !.mid = mid, !.evals = @ + 1]
           ELSE /\ solver' = [low |-> bracket.low, high |-> bracket.high,
                              mid |-> mid, evals |-> solver.evals + 1]
                /\ UNCHANGED <<pc, ret>>
    /\ UNCHANGED call
    /\ SolverIdle

\* line 56: the loop is exhausted.
BisectEnd ==
    /\ pc = "bisect"
    /\ solver.evals = call[4]
    /\ pc' = "returned"
    /\ ret' = midpoint(solver.low, solver.high)
    /\ UNCHANGED <<call, solver, cur>>
    /\ SolverIdle

InitVol ==
    /\ trade_days = <<>>
    /\ price_map = <<>>
    /\ option_basic = <<>>
    /\ otm_min = 0
    /\ otm_max = 50
    /\ NoRun

NextVol == EstimateImpliedVol \/ Bisect \/ BisectEnd

SpecVol == InitVol /\ [][NextVol]_vars

---------------------------------------------------------------------------
\* Properties of the run (Spec).

last_trade == trades[Len(trades)]

\* A cycle has just ended (or the run has) and pre still describes its start.
cycle_ended == pc \in {"loop", "done"}

\* C1: at every entry date at which a cycle is attempted, the side asked of
\* pick_option is the put exactly when no shares are held at that moment, and
\* the call exactly when some are.
C1_SideFollowsShares ==
    \A k \in 1..Len(picks) :
        /\ picks[k].side = "P" <=> picks[k].shares = 0
        /\ picks[k].side = "C" <=> picks[k].shares # 0

C1_Witness ==
    /\ \E k \in 1..Len(picks) : picks[k].side = "P" /\ picks[k].shares = 0
    /\ \E k \in 1..Len(picks) : picks[k].side = "C" /\ picks[k].shares # 0

\* C2: after a cycle in which a put was assigned, the next entry date attempted
\* asks pick_option for a call, never for another put.
C2_CallAfterAssignedPut ==
    \A t \in 1..Len(trades), k \in 1..Len(picks) :
        ( /\ trades[t].side = "PUT"
          /\ trades[t].assigned
          /\ picks[k].entry = trades[t].entry_date
          /\ k + 1 <= Len(picks) )
        => picks[k + 1].side = "C"

C2_Witness ==
    \E t \in 1..Len(trades), k \in 1..Len(picks) :
        /\ trades[t].side = "PUT"
        /\ trades[t].assigned
        /\ picks[k].entry = trades[t].entry_date
        /\ k + 1 <= Len(picks)
        /\ picks[k + 1].side = "C"

\* C3: in a put cycle that reaches settlement, the put is assigned exactly when
\* the settlement price is strictly below the strike; an assignment adds one
\* multiplier (contract_unit) to the shares and takes strike * multiplier from
\* the cash in the settlement step; at a settlement price equal to the strike
\* nothing is assigned.
C3_PutAssignment ==
    [][ LET strike    == row.exercise_price
            settle_px == price_on_or_before(strftime(row.maturity_date))
        IN  (pc = "settle" /\ option_type = "P" /\ settle_px # None) =>
                LET assigned == trades'[Len(trades')].assigned
                IN  /\ Len(trades') = Len(trades) + 1
                    /\ assigned <=> settle_px < strike
                    /\ assigned => /\ shares' = shares + contract_unit
                                   /\ cash' = cash - strike * contract_unit
                    /\ ~assigned => shares' = shares /\ cash' = cash
                    /\ settle_px = strike => ~assigned /\ shares' = shares
      ]_vars

C3_Witness ==
    /\ \E t \in 1..Len(trades) :
          /\ trades[t].side = "PUT"
          /\ trades[t].expiry_price = trades[t].strike
          /\ ~trades[t].assigned
    /\ cycle_ended
    /\ outcome = "settled"
    /\ last_trade.side = "PUT"
    /\ last_trade.expiry_price < last_trade.strike
    /\ last_trade.assigned
    /\ shares = pre.shares + contract_unit

\* C4: in a call cycle that reaches settlement, the call is assigned exactly
\* when the settlement price is strictly above the strike; an assignment adds
\* strike * multiplier to the cash and takes one multiplier from the shares,
\* not going below zero.
C4_CallAssignment ==
    [][ LET strike    == row.exercise_price
            settle_px == price_on_or_before(strftime(row.maturity_date))
        IN  (pc = "settle" /\ option_type = "C" /\ settle_px # None) =>
                LET assigned == trades'[Len(trades')].assigned
                IN  /\ Len(trades') = Len(trades) + 1
                    /\ assigned <=> settle_px > strike
                    /\ assigned => /\ cash' = cash + strike * contract_unit
                                   /\ shares' = Max(0, shares - contract_unit)
                    /\ ~assigned => shares' = shares /\ cash' = cash
      ]_vars

C4_Witness ==
    /\ cycle_ended
    /\ outcome = "settled"
    /\ last_trade.side = "CALL"
    /\ last_trade.expiry_price > last_trade.strike
    /\ last_trade.assigned
    /\ cash = pre.cash + last_trade.premium + last_trade.strike * contract_unit
    /\ shares = 0
    /\ pre.shares > 0

\* C5: once a quote has been obtained for the chosen contract, the cash grows
\* at once by the quoted close times the multiplier of that contract.
C5_PremiumOfChosenContract ==
    [][ pc = "credit" => cash' = cash + opt_px * row.per_unit ]_vars

\* C6: a cycle settled without assignment (a put at a settlement price >= the
\* strike, a call at one <= the strike) changes the cash by the premium alone,
\* leaves the shares as they were, and its record says not assigned.
C6_UnassignedCycle ==
    (cycle_ended /\ outcome = "settled") =>
        LET t == last_trade
            unassigned == \/ t.side = "PUT" /\ t.expiry_price >= t.strike
                          \/ t.side = "CALL" /\ t.expiry_price <= t.strike
        IN  unassigned =>
                /\ Len(trades) = Len(pre.trades) + 1
                /\ t.premium = opt_px * contract_unit
                /\ cash = pre.cash + t.premium
                /\ shares = pre.shares
                /\ ~t.assigned

C6_Witness ==
    /\ cycle_ended
    /\ outcome = "settled"
    /\ last_trade.side = "CALL"
    /\ last_trade.expiry_price <= last_trade.strike
    /\ ~last_trade.assigned
    /\ cash = pre.cash + last_trade.premium
    /\ last_trade.premium > 0
    /\ shares = pre.shares

\* C7: a cycle for which pick_option finds no contract, or for which no quote
\* is obtained, leaves cash, shares, running max margin, trade ledger and
\* equity curve as they were when the cycle began.
C7_SkippedCycleChangesNothing ==
    (cycle_ended /\ outcome \in {"no_contract", "no_quote"}) =>
        /\ cash = pre.cash
        /\ shares = pre.shares
        /\ max_margin = pre.max_margin
        /\ trades = pre.trades
        /\ equity_curve = pre.equity_curve

C7_Witness ==
    /\ cycle_ended
    /\ outcome = "no_quote"
    /\ Len(trades) > 0
    /\ chosen # None
    /\ option_type = "P"
    /\ max_margin = pre.max_margin
    /\ cash = pre.cash

last_point == equity_curve[Len(equity_curve)]

\* C11: in the trade record and the equity point of every settled cycle, the
\* holding value is the shares held after settlement times the settlement
\* price of that cycle, and the portfolio value is the cash balance plus that
\* holding value.
C11_HoldingAtSettlementPrice ==
    (cycle_ended /\ outcome = "settled") =>
        /\ last_trade.holding_value = shares * last_trade.expiry_price
        /\ last_trade.portfolio_value = last_trade.cash_balance + last_trade.holding_value
        /\ last_point.holding_value = shares * last_trade.expiry_price
        /\ last_point.portfolio_value = last_point.cash + last_point.holding_value

\* C12: a second run with the same parameters over the same external data (the
\* same price rows, raw contract rows, calendar and quote answers) returns
\* what the first run returned: the same ledger, the same equity curve, the
\* same final cash, shares and ending value.
C12_SameResultOnRerun ==
    (pc = "done" /\ prior # <<>>) =>
        /\ ret[1].trades = prior[1].trades
        /\ ret[1].equity_curve = prior[1].equity_curve
        /\ ret[1].cash = prior[1].cash
        /\ ret[1].shares = prior[1].shares
        /\ ret[1].ending_value = prior[1].ending_value

---------------------------------------------------------------------------
\* Properties of validation and loading (SpecLoad).

no_run_state ==
    /\ price_map = <<>> /\ option_basic = <<>> /\ trade_days = <<>>
    /\ months = <<>> /\ cash = 0 /\ shares = 0 /\ max_margin = 0
    /\ trades = <<>> /\ equity_curve = <<>> /\ cache = <<>> /\ picks = <<>>

\* C14: with otm_min < 0, or otm_max <= otm_min, or no underlying, the run
\* never leaves its start but by raising an error, no request is ever sent to
\* the data service, and no state, trade record or equity point exists.
C14_ConfigErrorBeforeAnyRequest ==
    (otm_min < 0 \/ otm_max <= otm_min \/ underlying = <<>>) =>
        /\ pc \in {"start", "error"}
        /\ requests = <<>>
        /\ quotes = <<>>
        /\ no_run_state

\* An empty band is rejected although every feed has data.
C14_Witness ==
    /\ pc = "error"
    /\ otm_min = otm_max
    /\ otm_min >= 0
    /\ underlying # <<>>
    /\ ~pro.is_none
    /\ DOMAIN pro.fund_daily # {}
    /\ pro.opt_basic # <<>>
    /\ pro.trade_cal # {}
    /\ requests = <<>>

asked(feed) == \E k \in 1..Len(requests) : requests[k][1] = feed

\* C15: with valid arguments, when both price feeds are empty, or opt_basic is
\* empty or has no row whose code contains the code of the underlying or whose
\* name contains a keyword, or the calendar is empty, the run never reaches the
\* loop: it ends in an error, no cycle is attempted, no premium is credited, no
\* record exists, no quote is asked.  The equity feed is asked only when the
\* fund feed returned no row, and then it is.
C15_DataUnavailable ==
    LET both_empty == DOMAIN pro.fund_daily = {} /\ DOMAIN pro.daily = {}
        unmatched  == \A k \in 1..Len(pro.opt_basic) :
                         /\ ~contains(pro.opt_basic[k].opt_code, <<underlying[1]>>)
                         /\ \A kw \in keywords \ {<<>>} :
                               ~contains(pro.opt_basic[k].name, kw)
        loaded_now == pc = "error" \/ (pc = "loop" /\ picks = <<>>)
    IN  (~pro.is_none /\ underlying # <<>> /\ otm_min >= 0 /\ otm_max > otm_min) =>
            /\ (both_empty \/ unmatched \/ pro.trade_cal = {}) =>
                   /\ pc \in {"start", "error"}
                   /\ no_run_state
                   /\ quotes = <<>>
                   /\ ~asked("opt_daily")
            /\ asked("daily") => DOMAIN pro.fund_daily = {}
            /\ loaded_now => (asked("daily") <=> DOMAIN pro.fund_daily = {})

\* The fund feed is empty, the equity feed is asked and has rows, the catalog
\* matches, and the run stops on the empty calendar.
C15_Witness ==
    /\ pc = "error"
    /\ ~pro.is_none /\ underlying # <<>> /\ otm_min >= 0 /\ otm_max > otm_min
    /\ DOMAIN pro.fund_daily = {}
    /\ DOMAIN pro.daily # {}
    /\ asked("daily")
    /\ asked("opt_basic")
    /\ asked("trade_cal")
    /\ pro.trade_cal = {}
    /\ no_run_state

---------------------------------------------------------------------------
\* More properties of the run (Spec).

\* C13: a cycle whose settlement price is absent appends no trade record and no
\* equity point and leaves the shares as they were; the premium credited in the
\* cycle stays in the cash and, for a put, the max margin keeps its update.
C13_NoSettlementPrice ==
    (cycle_ended /\ outcome = "no_expiry") =>
        /\ trades = pre.trades
        /\ equity_curve = pre.equity_curve
        /\ shares = pre.shares
        /\ cash = pre.cash + opt_px * contract_unit
        /\ max_margin = IF option_type = "P"
                        THEN Max(pre.max_margin, row.exercise_price * contract_unit)
                        ELSE pre.max_margin

\* A put is sold, its premium is credited, and no close is found at or before
\* the maturity.
C13_Witness ==
    /\ cycle_ended
    /\ outcome = "no_expiry"
    /\ option_type = "P"
    /\ cash > pre.cash
    /\ max_margin > pre.max_margin
    /\ trades = <<>>

is_prefix(s, t) == Len(s) <= Len(t) /\ SubSeq(t, 1, Len(s)) = s

chronological ==
    /\ \A k \in 1..(Len(trades) - 1) :
          /\ strptime(trades[k].entry_date) < strptime(trades[k + 1].entry_date)
          /\ trades[k].month < trades[k + 1].month
    /\ \A k \in 1..Len(trades) : trades[k].month = to_period(trades[k].entry_date)
    /\ Len(equity_curve) = Len(trades)
    /\ \A k \in 1..Len(trades) : equity_curve[k].date = trades[k].entry_date

\* C16: every step leaves the records already in the ledger and in the equity
\* curve in place and unchanged, adding at most at the end; after it, the
\* entry dates of successive records are strictly increasing and of different,
\* increasing months, and the equity curve has one point per trade record, in
\* the same order and with the same entry date.
C16_AppendOnlyChronological ==
    [][ /\ is_prefix(trades, trades')
        /\ is_prefix(equity_curve, equity_curve')
        /\ Len(trades') <= Len(trades) + 1
        /\ chronological' ]_vars

C16_Witness ==
    /\ pc = "done"
    /\ Len(trades) = 2
    /\ Len(equity_curve) = 2
    /\ trades[1].month < trades[2].month
    /\ equity_curve[2].date = trades[2].entry_date
    /\ Len(picks) = 2

attempted == [k \in 1..Len(picks) |-> picks[k].entry]

\* C17: the run ends (with a result, or with the error raised before the
\* loop); while the loop runs the entry dates attempted so far are the first
\* entry dates, each once, in their order, whatever the outcome of the cycles
\* before; when the loop has ended every entry date has been attempted.
C17_LoopTerminates ==
    /\ <>(pc \in {"done", "error"})
    /\ [](pc \in {"loop", "quote", "credit", "settle", "done"} =>
            /\ is_prefix(attempted, months)
            /\ \A j, k \in 1..Len(months) :
                  j < k => strptime(months[j]) < strptime(months[k])
            /\ Len(attempted) = IF pc \in {"loop", "done"} THEN idx - 1 ELSE idx)
    /\ [](pc = "done" => attempted = months)

\* Both entry dates were attempted although the cycle of the first was skipped
\* and nothing but the second led to a record; or neither led to one.
C17_Witness ==
    /\ pc = "done"
    /\ Len(months) = NumMonths
    /\ attempted = months
    /\ Len(trades) = 1
    /\ trades[1].entry_date = months[NumMonths]
    /\ outcome = "settled"

\* C20: a lookup sends at most two requests to pro.opt_daily: the first for
\* the contract and the date asked for; a second one only when the first was
\* answered with no row, and then for the same contract and the first trading
\* day after the date.  The lookup returns None when the answers are empty or
\* when the first is and there is no later trading day; a quote in hand is
\* never followed by a request.
C20_AtMostTwoQuoteRequests ==
    [][ pc = "quote" =>
          LET key    == <<row.ts_code, entry>>
              later  == {d \in day_set : d > strptime(entry)}
              absent == pc' = "loop" /\ outcome' = "no_quote"
              sent   == requests'
          IN  /\ Len(sent) <= 2
              /\ \A k \in 1..Len(sent) : sent[k][1] = "opt_daily" /\ sent[k][2] = row.ts_code
              /\ Len(sent) >= 1 => sent[1][3] = entry
              /\ Len(sent) = 2 =>
                    /\ quotes'[key] = None
                    /\ later # {}
                    /\ sent[2][3] = strftime(SetMin(later))
              /\ (Len(sent) = 2 /\ quotes'[<<row.ts_code, sent[2][3]>>] = None) => absent
              /\ (Len(sent) = 1 /\ quotes'[key] = None) => (absent /\ later = {})
              /\ (Len(sent) = 1 /\ quotes'[key] # None) => ~absent
              /\ absent => Len(sent) >= 1 /\ quotes'[key] = None
      ]_vars

\* The first request got no row, the second one a quote.
C20_Witness ==
    /\ pc = "credit"
    /\ Len(requests) = 2
    /\ requests[1] = <<"opt_daily", row.ts_code, entry>>
    /\ strptime(requests[2][3]) > strptime(entry) + 1
    /\ quotes[<<row.ts_code, entry>>] = None
    /\ opt_px = quotes[<<row.ts_code, requests[2][3]>>]

---------------------------------------------------------------------------
\* Properties of the helpers (SpecPick, SpecNearest, SpecPrice).

\* C8: pick_option(tradeDate, spot, side) returns None exactly when no row of
\* the catalog has the side asked for, a listing date <= tradeDate, no
\* delisting date or one >= tradeDate, a maturity > tradeDate and an otm within
\* [otm_min, otm_max], bounds included; otherwise it returns such a row, and no
\* such row has an earlier maturity, or the same maturity and a smaller otm.
C8_PickOption ==
    (pc = "returned" /\ call[1] = "pick_option") =>
        LET d    == strptime(call[2])
            s    == call[3]
            side == call[4]
            otm100(c) == IF side = "P" THEN (s - c.exercise_price) * 100
                         ELSE (c.exercise_price - s) * 100
            qualifies(c) ==
                /\ c.call_put = side
                /\ c.list_date <= d
                /\ (c.delist_date = NaT \/ c.delist_date >= d)
                /\ c.maturity_date > d
                /\ otm_min * s <= otm100(c)
                /\ otm100(c) <= otm_max * s
            Q == {k \in 1..Len(option_basic) : qualifies(option_basic[k])}
        IN  /\ ret = None <=> Q = {}
            /\ ret # None =>
                 /\ ret \in Q
                 /\ \A j \in Q :
                      \/ option_basic[ret].maturity_date < option_basic[j].maturity_date
                      \/ /\ option_basic[ret].maturity_date = option_basic[j].maturity_date
                         /\ otm100(option_basic[ret]) <= otm100(option_basic[j])

\* Two rows qualify, the later one in the catalog matures first and has the
\* larger otm, and it is the one returned.
C8_Witness ==
    /\ pc = "returned"
    /\ call[1] = "pick_option"
    /\ call[4] = "P"
    /\ Len(option_basic) = 2
    /\ ret = 2
    /\ option_basic[1].call_put = "P"
    /\ option_basic[1].list_date <= strptime(call[2])
    /\ option_basic[1].delist_date = NaT
    /\ option_basic[1].maturity_date > option_basic[2].maturity_date
    /\ option_basic[1].exercise_price > option_basic[2].exercise_price
    /\ otm_min * call[3] <= (call[3] - option_basic[1].exercise_price) * 100
    /\ (call[3] - option_basic[2].exercise_price) * 100 <= otm_max * call[3]

\* C9: nearest_trade_day(d, forward) returns the least trading day after d and
\* nearest_trade_day(d, backward) the greatest trading day before d; it returns
\* None exactly when the scan, which starts one day from d, is outside
\* [first trading day, last trading day]; a date returned is a trading day and
\* is never d.
C9_NearestTradeDay ==
    (pc = "returned" /\ call[1] = "nearest_trade_day") =>
        LET d       == strptime(call[2])
            forward == call[3]
            first   == SetMin(day_set)
            last    == SetMax(day_set)
            start   == IF forward THEN d + 1 ELSE d - 1
            beyond  == IF forward THEN {c \in day_set : c > d}
                       ELSE {c \in day_set : c < d}
        IN  /\ ret = None <=> (start < first \/ start > last)
            /\ ret # None =>
                 /\ ret # call[2]
                 /\ strptime(ret) \in day_set
                 /\ strftime(strptime(ret)) = ret
                 /\ strptime(ret) = IF forward THEN SetMin(beyond) ELSE SetMax(beyond)

\* The scan passes a day that is no trading day and returns the next one.
C9_Witness ==
    /\ pc = "returned"
    /\ call[1] = "nearest_trade_day"
    /\ call[3] = TRUE
    /\ ret # None
    /\ strptime(ret) > strptime(call[2]) + 1
    /\ to_period(ret) # to_period(call[2])

\* C10: price_on_or_before(d) returns the close of the latest date <= d that
\* has a price, and None only when no date at or before d has one.
C10_PriceOnOrBefore ==
    (pc = "returned" /\ call[1] = "price_on_or_before") =>
        LET d      == strptime(call[2])
            priced == {strptime(p) : p \in {q \in DOMAIN price_map : strptime(q) <= d}}
        IN  IF priced = {} THEN ret = None
            ELSE ret = price_map[strftime(SetMax(priced))]

---------------------------------------------------------------------------
\* Properties of the solver (SpecVol).

\* C18: estimate_implied_vol returns None or a volatility in [1e-4, 5.0]; at
\* every moment of the bisection 1e-4 <= low <= high <= 5.0, the midpoint last
\* evaluated lies between them, low has not decreased and high has not
\* increased in the step, and at most `iterations` midpoints have been
\* evaluated; a volatility returned is the midpoint last evaluated or, after
\* `iterations` evaluations, the midpoint of the final bracket.
C18_BisectionBracket ==
    [][ /\ pc' \in {"bisect", "returned"} /\ call'[1] = "estimate_implied_vol" =>
            /\ pc' = "returned" => (ret' = None \/ (low_0 <= ret' /\ ret' <= high_0))
            /\ (pc' = "bisect" \/ ret' # None) =>
                  /\ low_0 <= solver'.low
                  /\ solver'.low <= solver'.high
                  /\ solver'.high <= high_0
                  /\ solver'.evals <= call'[4]
                  /\ solver'.evals > 0 =>
                        solver'.low <= solver'.mid /\ solver'.mid <= solver'.high
            /\ (pc' = "returned" /\ ret' # None) =>
                  \/ solver'.evals > 0 /\ ret' = solver'.mid
                  \/ /\ solver'.evals = call'[4]
                     /\ 2 * ret' = solver'.low + solver'.high
        /\ pc = "bisect" => solver'.low >= solver.low /\ solver'.high <= solver.high
      ]_vars

\* Every pass of the loop ran, both bounds moved, and the midpoint of the last
\* bracket was returned.
C18_Witness ==
    /\ pc = "returned"
    /\ call[1] = "estimate_implied_vol"
    /\ call[4] = MaxIterations
    /\ solver.evals = MaxIterations
    /\ solver.low > low_0
    /\ solver.high < high_0
    /\ ret # None
    /\ ret # solver.mid
    /\ 2 * ret = solver.low + solver.high

\* C19: a volatility returned by estimate_implied_vol, put into
\* black_scholes_price for the same contract, gives the premium of the call
\* within 1e-3.
C19_RoundTrip ==
    (pc = "returned" /\ call[1] = "estimate_implied_vol" /\ ret # None) =>
        abs(black_scholes_price(VolContracts[call[3]], ret) - call[2])
            <= PriceScale \div 1000

---------------------------------------------------------------------------
\* Properties of option_close (SpecCache).

\* The calls of this run, before the one just made, that asked for key and got
\* a quote.
served(key) == {i \in 1..Len(lookups) : lookups[i].key = key /\ lookups[i].quote # <<>>}

\* C21: in one run, a call of option_close for a key that an earlier call of
\* the run got a quote for returns that quote and sends no request; a call for
\* a key that no earlier call of the run got a quote for sends a request, also
\* when an earlier run got one; a new run starts with an empty cache.
C21_CachePerRun ==
    [][ /\ Len(lookups') = Len(lookups) + 1 =>
            LET now == lookups'[Len(lookups')]
            IN  /\ \A i \in served(now.key) :
                      now.quote = lookups[i].quote /\ requests' = <<>>
                /\ served(now.key) = {} =>
                      /\ Len(requests') >= 1
                      /\ requests'[1] = <<"opt_daily", now.key[1], now.key[2]>>
        /\ (Len(lookups') < Len(lookups) \/ (pc = "start" /\ pc' = "loop")) =>
              cache' = <<>>
      ]_vars

\* The second call of a run for a key was answered from the cache.
C21_Witness ==
    /\ Len(lookups) = 2
    /\ lookups[1].key = lookups[2].key
    /\ lookups[1].quote # <<>>
    /\ lookups[2].quote = lookups[1].quote
    /\ requests = <<>>

---------------------------------------------------------------------------
\* Properties of the margin (SpecStrikes).

---------------------------------------------------------------------------
\* Properties of the catalog (SpecLoad).

\* C23: every row of the catalog a run works on has a maturity date and a
\* listing date, the maturity later than the listing, and a strike and a
\* multiplier above zero: a row of the feed that lacks one of them was dropped
\* when the catalog was built.
C23_CatalogRowsComplete ==
    pc \in {"loop", "quote", "credit", "settle", "done"} =>
        \A k \in DOMAIN option_basic :
            /\ option_basic[k].maturity_date # NaT
            /\ option_basic[k].list_date # NaT
            /\ option_basic[k].maturity_date > option_basic[k].list_date
            /\ option_basic[k].exercise_price # NaN
            /\ option_basic[k].exercise_price > 0
            /\ option_basic[k].per_unit # NaN
            /\ option_basic[k].per_unit > 0

---------------------------------------------------------------------------
\* Properties of the catalog construction (SpecChain).

\* The rows of the feed whose code contains the root of the fund's code, and
\* the non-empty sets of rows matched by a non-empty name variant.
by_code == SelectSeq(pro.opt_basic, LAMBDA r : contains(r.opt_code, <<underlying[1]>>))
by_name ==
    {SelectSeq(pro.opt_basic, LAMBDA r : contains(r.name, kw)) : kw \in keywords \ {<<>>}}
        \ {<<>>}

\* The construction of the catalog raised.
chain_failed ==
    /\ pc = "error"
    /\ ret[1] \in {"No option metadata returned",
                   "No option contracts matched the underlying",
                   "Option contract metadata incomplete"}

complete(rows) ==
    SelectSeq(rows, LAMBDA r : r.exercise_price # NaN /\ r.per_unit # NaN
                               /\ r.maturity_date # NaT)

\* C24 as amended: the catalog is made of the complete rows of the code match
\* when a code matches, and otherwise of the complete rows of the match set of
\* a name variant that matches; the construction fails when every match set is
\* empty, and also when the match set used has no complete row.
C24_MatchSetUsed ==
    /\ pc \in {"loop", "quote", "credit", "settle", "done"} =>
          /\ by_code # <<>> => option_basic = complete(by_code)
          /\ by_code = <<>> => \E rows \in by_name : option_basic = complete(rows)
    /\ chain_failed =>
          \/ by_code = <<>> /\ by_name = {}
          \/ by_code # <<>> /\ complete(by_code) = <<>>
          \/ by_code = <<>> /\ \E rows \in by_name : complete(rows) = <<>>
    /\ (pc # "start" /\ by_code = <<>> /\ by_name = {}) =>
          (chain_failed /\ ret[1] # "Option contract metadata incomplete")

\* The catalog was built from the rows matched by a name variant, and they
\* are not all the rows of the feed.
C24_Witness ==
    /\ pc = "loop"
    /\ by_code = <<>>
    /\ by_name # {}
    /\ Len(option_basic) < Len(pro.opt_basic)

\* C24 as claimed: the construction fails exactly when every match set is
\* empty.
C24_FailsOnlyWithoutMatch ==
    pc # "start" => (chain_failed <=> (by_code = <<>> /\ by_name = {}))

---------------------------------------------------------------------------
\* Properties of the implied volatility of a cycle (SpecVols).

\* The volatility of the quote the cycle got, None when it has none.
quoted_vol == lookups[Len(lookups)].quote[2]

\* estimate_implied_vol has nothing to return for the cycle: an argument is not
\* positive, or the premium is outside the prices at the two ends of the
\* bracket.
solver_absent ==
    LET strike == row.exercise_price
        days   == row.maturity_date - strptime(entry)
        ends   == end_prices(spot, strike, option_type)
    IN  \/ opt_px <= 0 \/ spot <= 0 \/ strike <= 0 \/ days <= 0
        \/ opt_px * PriceScale < ends.price_low[days]
        \/ opt_px * PriceScale > ends.price_high[days]

---------------------------------------------------------------------------
\* Properties of the two walks (SpecWalk).

\* C26: a call of nearest_trade_day or of price_on_or_before, on any date of
\* the window and any non-empty calendar, returns; what nearest_trade_day
\* returns is None or a trading day, what price_on_or_before returns is None or
\* a recorded close.
C26_WalksTerminate ==
    /\ [](pc \in {"nearest", "price"} => <>(pc = "returned"))
    /\ []((pc = "returned" /\ call[1] = "nearest_trade_day") =>
             (ret = None \/ (ret \in DateStrs /\ strptime(ret) \in day_set)))
    /\ []((pc = "returned" /\ call[1] = "price_on_or_before") =>
             (ret = None \/ \E d \in DOMAIN price_map : ret = price_map[d]))

\* A backward walk from a date after the last trading day has left the
\* calendar at once and returned None; the calendar has a gap.
C26_Witness ==
    /\ pc = "returned"
    /\ call[1] = "nearest_trade_day"
    /\ call[3] = FALSE
    /\ strptime(call[2]) > trade_days[Len(trade_days)] + 1
    /\ ret = None

---------------------------------------------------------------------------
\* Properties of the shares held (Spec).

\* C27: while a run is under way and after it, the multiplier of the run is
\* positive and the shares held are none or one multiplier; every call was
\* sold while one multiplier was held and every put while none was; when a
\* call is settled the shares less one multiplier are not below zero, so the
\* floor of line 239 returns them.
C27_SharesZeroOrOneUnit ==
    pc \in {"loop", "quote", "credit", "settle", "done"} =>
        /\ contract_unit > 0
        /\ shares \in {0, contract_unit}
        /\ \A k \in DOMAIN picks :
              /\ picks[k].side = "C" => picks[k].shares = contract_unit
              /\ picks[k].side = "P" => picks[k].shares = 0
        /\ (pc = "settle" /\ option_type = "C") =>
              /\ shares - contract_unit >= 0
              /\ Max(0, shares - contract_unit) = shares - contract_unit

\* An assigned call has taken the shares of an assigned put away again.
C27_Witness ==
    /\ pc = "loop"
    /\ Len(trades) = 2
    /\ trades[1].side = "PUT" /\ trades[1].assigned
    /\ trades[2].side = "CALL" /\ trades[2].assigned
    /\ picks[2].shares = contract_unit
    /\ contract_unit > 1
    /\ shares = 0

---------------------------------------------------------------------------
\* Properties of the settlement price (Spec).

\* Every date of the price series is a date of the trading calendar.
priced_on_trade_days == \A d \in DOMAIN price_map : strptime(d) \in day_set

\* C28: when every priced date is a trading day, the step that settles a cycle
\* (the one after its premium was credited) appends a trade, and the
\* settlement price of the trade is the close of a priced date from the entry
\* date to the maturity date; no cycle ends for want of a settlement price.
C28_SettlementPricePresent ==
    [][ priced_on_trade_days =>
          /\ outcome' # "no_expiry"
          /\ pc = "settle" =>
                /\ Len(trades') = Len(trades) + 1
                /\ \E d \in DOMAIN price_map :
                      /\ strptime(entry) <= strptime(d)
                      /\ strptime(d) <= row.maturity_date
                      /\ trades'[Len(trades')].expiry_price = price_map[d]
                /\ trades'[Len(trades')].entry_date = entry
                /\ trades'[Len(trades')].premium = cash - pre.cash
      ]_vars

\* On a calendar of the first and the last day only, a cycle entered on the
\* first day was settled at the close of its entry date: no later date up to
\* the maturity has a price.
C28_Witness ==
    /\ priced_on_trade_days
    /\ pc = "loop"
    /\ outcome = "settled"
    /\ Len(trade_days) = 2
    /\ Len(trades) = 1
    /\ strptime(trades[1].expiry) > strptime(trades[1].entry_date)
    /\ strftime(strptime(trades[1].expiry)) \notin DOMAIN price_map
    /\ trades[1].expiry_price = price_map[trades[1].entry_date]

---------------------------------------------------------------------------
\* Properties of the ledger (Spec).

\* The cycle of the k-th call of pick_option appended a trade.
recorded(k) == \E t \in DOMAIN trades : trades[t].entry_date = picks[k].entry

ledger_conserves_cash ==
    /\ \A t \in DOMAIN trades :
          trades[t].cash_balance =
              (IF t = 1 THEN InitialCapital ELSE trades[t - 1].cash_balance)
              + trades[t].premium
              + (IF ~trades[t].assigned THEN 0
                 ELSE IF trades[t].side = "PUT"
                 THEN 0 - trades[t].strike * contract_unit
                 ELSE trades[t].strike * contract_unit)
    /\ (pc = "done" /\ trades # <<>>) =>
          ret[1].cash = trades[Len(trades)].cash_balance

=============================================================================
